---- MODULE Spec2Model ----
(***************************************************************************)
(* The QA quality-gate pipeline of scripts/: the gate evaluator            *)
(* (evaluate_qa_quality_gates.py), the gate status checker                 *)
(* (check_qa_gate_status.py), the promotion reporter                       *)
(* (create_qa_promotion_report.py) and the template promoter               *)
(* (promote_to_testing.py), as state machines over a small file system.    *)
(*                                                                         *)
(* Numbers.  The scores of the code are Python floats obtained by one      *)
(* final division; a score is kept here as the exact fraction              *)
(* [num |-> n, den |-> d] and compared with a threshold by                 *)
(* cross-multiplication.                                                   *)
(*                                                                         *)
(* Files.  A file is a record with a field kind: "absent" (no such file),  *)
(* "malformed" (json.load raises), "array" (a JSON document whose top      *)
(* level is not an object) or "object".                                    *)
(***************************************************************************)
EXTENDS Integers, Sequences, FiniteSets, TLC

\* Longest list of findings in one tool report.
MaxFindings == 1

\* Most template files in the source tree.
MaxTemplates == 2

---------------------------------------------------------------------------
(* Python helpers *)

Max(a, b) == IF a >= b THEN a ELSE b

\* len([r for r in results if r == x])
Count(results, x) == Cardinality({i \in DOMAIN results : results[i] = x})

\* a score sum / den as a fraction
Frac(n, d) == [num |-> n, den |-> d]

\* score >= threshold, for a fraction and an integer threshold
FracGE(score, threshold) == score.num >= threshold * score.den

\* all sequences over S of length at most n
SeqsUpTo(S, n) == UNION {[1..k -> S] : k \in 0..n}

Absent == [kind |-> "absent"]

Malformed == [kind |-> "malformed"]

Array == [kind |-> "array"]

---------------------------------------------------------------------------
(* QAQualityGateEvaluator *)

quality_gates ==
    [security_score_threshold |-> 90,
     compliance_pass_rate |-> 100,
     code_quality_score |-> 85,
     performance_baseline_met |-> TRUE,
     vulnerability_count_limit |-> 0,
     test_coverage_minimum |-> 80]

\* A scanner's contribution: what it adds to security_score and to
\* vulnerability_count.
Term(score, vulns) == [score |-> score, vulns |-> vulns]

\* bandit-report.json: an object whose results carry an issue_severity.
BanditTerm(f) ==
    CASE f.kind = "absent" -> Term(0, 0)
      [] f.kind \in {"malformed", "array"} -> Term(50, 0)
      [] OTHER ->
           LET high_severity == Count(f.results, "HIGH")
               medium_severity == Count(f.results, "MEDIUM")
           IN  Term(Max(0, 100 - (high_severity * 20) - (medium_severity * 10)),
                    high_severity + medium_severity)

\* safety-report.json: a list of vulnerabilities; any other document counts
\* as no vulnerability.
SafetyTerm(f) ==
    CASE f.kind = "absent" -> Term(0, 0)
      [] f.kind = "malformed" -> Term(50, 0)
      [] OTHER ->
           LET vuln_count == IF f.kind = "array" THEN Len(f.items) ELSE 0
           IN  Term(Max(0, 100 - (vuln_count * 15)), vuln_count)

\* semgrep-report.json: an object whose results carry extra.severity.
SemgrepTerm(f) ==
    CASE f.kind = "absent" -> Term(0, 0)
      [] f.kind \in {"malformed", "array"} -> Term(50, 0)
      [] OTHER ->
           LET critical_findings == Count(f.results, "ERROR")
           IN  Term(Max(0, 100 - (critical_findings * 25)), critical_findings)

\* As SecurityRecord, passing on the score alone.
SecurityRecordOnScoreAlone(security_score, vulnerability_count) ==
    LET avg_security_score ==
            IF security_score > 0 THEN Frac(security_score, 3) ELSE Frac(0, 1)
    IN  [security_score |-> avg_security_score,
         vulnerability_count |-> vulnerability_count,
         passed |-> FracGE(avg_security_score, quality_gates.security_score_threshold)]

SecurityRecord(security_score, vulnerability_count) ==
    LET avg_security_score ==
            IF security_score > 0 THEN Frac(security_score, 3) ELSE Frac(0, 1)
    IN  [security_score |-> avg_security_score,
         vulnerability_count |-> vulnerability_count,
         passed |-> FracGE(avg_security_score, quality_gates.security_score_threshold)
                    /\ vulnerability_count <= quality_gates.vulnerability_count_limit]

\* As evaluate_security_results, dividing by the number of reports present.
evaluate_security_results_by_contributors(dir) ==
    LET b == BanditTerm(dir.bandit)
        s == SafetyTerm(dir.safety)
        g == SemgrepTerm(dir.semgrep)
        present == Cardinality({tool \in {"bandit", "safety", "semgrep"} :
                                   dir[tool].kind # "absent"})
        security_score == b.score + s.score + g.score
        vulnerability_count == b.vulns + s.vulns + g.vulns
        avg_security_score ==
            IF security_score > 0 THEN Frac(security_score, present) ELSE Frac(0, 1)
    IN  [security_score |-> avg_security_score,
         vulnerability_count |-> vulnerability_count,
         passed |-> FracGE(avg_security_score, quality_gates.security_score_threshold)
                    /\ vulnerability_count <= quality_gates.vulnerability_count_limit]

evaluate_security_results(dir) ==
    LET b == BanditTerm(dir.bandit)
        s == SafetyTerm(dir.safety)
        g == SemgrepTerm(dir.semgrep)
    IN  SecurityRecord(b.score + s.score + g.score, b.vulns + s.vulns + g.vulns)

\* A JSON member as Python sees it after json.load: a number, a value that
\* is no number (a string, null, a list), or no such member.
Num(v) == [t |-> "number", v |-> v]

NotANumber == [t |-> "other", v |-> 0]

Missing == [t |-> "missing", v |-> 0]

\* dict.get(key, default) on a member
Get(member, default) == IF member.t = "missing" THEN Num(default) ELSE member

compliance_checks ==
    <<"gdpr-compliance.json", "hipaa-compliance.json",
      "soc2-compliance.json", "iso27001-compliance.json">>

\* The compliant member as its JSON text: the literals true and false, the
\* strings "false" and "", or no such member.  Python takes a value for
\* true in a condition unless it is False, None, zero or empty;
\* .get('compliant', False) gives False for a missing member.
CompliantValues == {"true", "false", "\"false\"", "\"\"", "missing"}

Truthy(json) == json \notin {"false", "\"\"", "missing"}

\* One compliance file counts when it exists, parses to an object and says
\* status == 'PASSED' or has a compliant that Python takes for true.
CompliancePassed(f) ==
    /\ f.kind = "object"
    /\ (f.status = "PASSED" \/ Truthy(f.compliant))

evaluate_compliance_results(dir) ==
    LET total_checks == Len(compliance_checks)
        passed_checks ==
            Cardinality({i \in DOMAIN compliance_checks :
                            CompliancePassed(dir[compliance_checks[i]])})
        pass_rate ==
            IF total_checks > 0 THEN Frac(passed_checks * 100, total_checks)
            ELSE Frac(0, 1)
    IN  [compliance_pass_rate |-> pass_rate,
         passed_checks |-> passed_checks,
         total_checks |-> total_checks,
         passed |-> FracGE(pass_rate, quality_gates.compliance_pass_rate)]

\* complexity-report.json: what it adds to quality_score.
ComplexityTerm(f) ==
    CASE f.kind = "absent" -> 0
      [] f.kind \in {"malformed", "array"} -> 70
      [] OTHER ->
           LET avg_complexity == Get(f.averageComplexity, 10)
           IN  IF avg_complexity.t = "number"
               THEN Max(0, 100 - (avg_complexity.v * 5))
               ELSE 70

\* technical-debt.json: what it adds to quality_score.
DebtTerm(f) ==
    CASE f.kind = "absent" -> 0
      [] f.kind \in {"malformed", "array"} -> 70
      [] OTHER ->
           LET debt_score == Get(f.debt_score, 80)
           IN  IF debt_score.t = "number" THEN debt_score.v ELSE 70

\* The first file matching coverage/*summary*: "text" is a summary whose
\* suffix is not .json; pct is total.lines.pct of a JSON summary.
CoverageScore(f) ==
    IF f.kind = "object" THEN Get(f.pct, 85) ELSE Num(85)

QualityAverage(dir) ==
    LET quality_score == ComplexityTerm(dir.complexity) + DebtTerm(dir.debt)
    IN  IF quality_score > 0 THEN Frac(quality_score, 2) ELSE Frac(85, 1)

\* The comparison of line 168 is reached only when the first conjunct holds;
\* a coverage figure that is no number then raises TypeError.
QualityRaises(dir) ==
    /\ FracGE(QualityAverage(dir), quality_gates.code_quality_score)
    /\ CoverageScore(dir.coverage).t # "number"

evaluate_quality_results(dir) ==
    LET avg_quality_score == QualityAverage(dir)
        coverage_score == CoverageScore(dir.coverage)
    IN  [quality_score |-> avg_quality_score,
         coverage_score |-> coverage_score,
         passed |-> FracGE(avg_quality_score, quality_gates.code_quality_score)
                    /\ coverage_score.t = "number"
                    /\ coverage_score.v >= quality_gates.test_coverage_minimum]

DefaultPerformance ==
    [performance_score |-> Frac(80, 1),
     baseline_met |-> TRUE,
     passed |-> TRUE,
     note |-> "Performance baseline not available, assuming pass"]

\* As evaluate_performance_results, without the floor of 0 on the response
\* and memory scores.
evaluate_performance_results_unfloored(dir) ==
    LET f == dir.baseline
        response_time == Get(f.avg_response_time, 1000)
        memory_usage == Get(f.peak_memory_mb, 512)
        lighthouse_score == Get(f.lighthouse_performance, 90)
        avg_perf_score ==
            Frac((1000 - response_time.v) + (1000 - memory_usage.v)
                 + 10 * lighthouse_score.v, 30)
        baseline_met == FracGE(avg_perf_score, 75)
    IN  IF /\ f.kind = "object"
           /\ response_time.t = "number"
           /\ memory_usage.t = "number"
           /\ lighthouse_score.t = "number"
        THEN [performance_score |-> avg_perf_score,
              response_time_ms |-> response_time.v,
              memory_usage_mb |-> memory_usage.v,
              lighthouse_score |-> lighthouse_score.v,
              baseline_met |-> baseline_met,
              passed |-> baseline_met]
        ELSE DefaultPerformance

\* response_time / 10 and memory_usage / 10 are kept in tenths, so the
\* average of the three scores is a fraction over 30.
evaluate_performance_results(dir) ==
    LET f == dir.baseline
        response_time == Get(f.avg_response_time, 1000)
        memory_usage == Get(f.peak_memory_mb, 512)
        lighthouse_score == Get(f.lighthouse_performance, 90)
        response_score10 == Max(0, 1000 - response_time.v)
        memory_score10 == Max(0, 1000 - memory_usage.v)
        avg_perf_score ==
            Frac(response_score10 + memory_score10 + 10 * lighthouse_score.v, 30)
        baseline_met == FracGE(avg_perf_score, 75)
    IN  IF /\ f.kind = "object"
           /\ response_time.t = "number"
           /\ memory_usage.t = "number"
           /\ lighthouse_score.t = "number"
        THEN [performance_score |-> avg_perf_score,
              response_time_ms |-> response_time.v,
              memory_usage_mb |-> memory_usage.v,
              lighthouse_score |-> lighthouse_score.v,
              baseline_met |-> baseline_met,
              passed |-> baseline_met]
        ELSE DefaultPerformance

---------------------------------------------------------------------------
(* The report files the scanners may leave in the security results dir *)

BanditReports(n) ==
    {Absent, Malformed, Array}
    \cup {[kind |-> "object", results |-> r] : r \in SeqsUpTo({"HIGH", "MEDIUM", "LOW"}, n)}

SafetyReports(n) ==
    {Absent, Malformed, [kind |-> "object"]}
    \cup {[kind |-> "array", items |-> r] : r \in SeqsUpTo({"vulnerability"}, n)}

SemgrepReports(n) ==
    {Absent, Malformed, Array}
    \cup {[kind |-> "object", results |-> r] : r \in SeqsUpTo({"ERROR", "WARNING"}, n)}

SecurityDirs(n) ==
    [bandit : BanditReports(n), safety : SafetyReports(n), semgrep : SemgrepReports(n)]

EmptySecurityDir == [bandit |-> Absent, safety |-> Absent, semgrep |-> Absent]

ComplianceReports ==
    {Absent, Malformed, Array}
    \cup {[kind |-> "object", status |-> st, compliant |-> c] :
             st \in {"PASSED", "FAILED"}, c \in CompliantValues}

ComplianceDirs(files) == [{compliance_checks[i] : i \in DOMAIN compliance_checks} -> files]

Members(values) == {Missing, NotANumber} \cup {Num(v) : v \in values}

ComplexityReports(values) ==
    {Absent, Malformed, Array}
    \cup {[kind |-> "object", averageComplexity |-> m] : m \in Members(values)}

DebtReports(values) ==
    {Absent, Malformed, Array}
    \cup {[kind |-> "object", debt_score |-> m] : m \in Members(values)}

CoverageReports(values) ==
    {Absent, Malformed, Array, [kind |-> "text"]}
    \cup {[kind |-> "object", pct |-> m] : m \in Members(values)}

QualityDirs(complexities, debts, coverages) ==
    [complexity : complexities, debt : debts, coverage : coverages]

BaselineReports(times, memories, lighthouses) ==
    {Absent, Malformed, Array}
    \cup {[kind |-> "object", avg_response_time |-> a, peak_memory_mb |-> b,
           lighthouse_performance |-> c] :
             a \in Members(times), b \in Members(memories), c \in Members(lighthouses)}

PerformanceDirs(baselines) == [baseline : baselines]

---------------------------------------------------------------------------
(* evaluate_all_gates and the evaluate-gates entry point *)

EmptyDict == [empty |-> TRUE]

\* QAQualityGateEvaluator.__init__
InitialResults ==
    [security |-> EmptyDict, compliance |-> EmptyDict, quality |-> EmptyDict,
     performance |-> EmptyDict, overall_status |-> "PENDING"]

\* As AllPassed, with the quality flag left out of all([...]).
AllPassedWithoutQuality(results) ==
    /\ results.security.passed
    /\ results.compliance.passed
    /\ results.performance.passed

AllPassed(results) ==
    /\ results.security.passed
    /\ results.compliance.passed
    /\ results.quality.passed
    /\ results.performance.passed

\* As WithOverallStatus, with the performance flag left out of all([...]).
WithOverallStatusWithoutPerformance(results) ==
    [security |-> results.security,
     compliance |-> results.compliance,
     quality |-> results.quality,
     performance |-> results.performance,
     overall_status |->
         IF /\ results.security.passed
            /\ results.compliance.passed
            /\ results.quality.passed
         THEN "PASSED" ELSE "FAILED",
     timestamp |-> "now",
     quality_gates |-> quality_gates]

\* lines 221-231: the overall status, the timestamp and the thresholds
WithOverallStatus(results) ==
    [security |-> results.security,
     compliance |-> results.compliance,
     quality |-> results.quality,
     performance |-> results.performance,
     overall_status |-> IF AllPassed(results) THEN "PASSED" ELSE "FAILED",
     timestamp |-> "now",
     quality_gates |-> quality_gates]

\* The summary formats coverage_score with :.1f (line 246), which raises for
\* a value that is no number.
SummaryRaises(results) == results.quality.coverage_score.t # "number"

---------------------------------------------------------------------------
(* JSON: json.dump turns Python values into a document of tagged values,
   and that document is what the readers of the file see after json.load *)

JStr(s) == [t |-> "string", s |-> s]

JNull == [t |-> "null"]

JBool(b) == [t |-> "bool", b |-> b]

JNum(x) == [t |-> "number", x |-> x]

JInt(n) == JNum(Frac(n, 1))

JArr == [t |-> "array"]

JObj(members) == [t |-> "object", o |-> members]

JsonFile(doc) == [kind |-> "json", doc |-> doc]

DumpSecurity(r) ==
    JObj([security_score |-> JNum(r.security_score),
          vulnerability_count |-> JInt(r.vulnerability_count),
          passed |-> JBool(r.passed)])

DumpCompliance(r) ==
    JObj([compliance_pass_rate |-> JNum(r.compliance_pass_rate),
          passed_checks |-> JInt(r.passed_checks),
          total_checks |-> JInt(r.total_checks),
          passed |-> JBool(r.passed)])

DumpQuality(r) ==
    JObj([quality_score |-> JNum(r.quality_score),
          coverage_score |-> JInt(r.coverage_score.v),
          passed |-> JBool(r.passed)])

DumpPerformance(r) ==
    IF "note" \in DOMAIN r
    THEN JObj([performance_score |-> JNum(r.performance_score),
               baseline_met |-> JBool(r.baseline_met),
               passed |-> JBool(r.passed),
               note |-> JStr(r.note)])
    ELSE JObj([performance_score |-> JNum(r.performance_score),
               response_time_ms |-> JInt(r.response_time_ms),
               memory_usage_mb |-> JInt(r.memory_usage_mb),
               lighthouse_score |-> JInt(r.lighthouse_score),
               baseline_met |-> JBool(r.baseline_met),
               passed |-> JBool(r.passed)])

DumpGates(g) ==
    JObj([security_score_threshold |-> JInt(g.security_score_threshold),
          compliance_pass_rate |-> JInt(g.compliance_pass_rate),
          code_quality_score |-> JInt(g.code_quality_score),
          performance_baseline_met |-> JBool(g.performance_baseline_met),
          vulnerability_count_limit |-> JInt(g.vulnerability_count_limit),
          test_coverage_minimum |-> JInt(g.test_coverage_minimum)])

\* As DumpResults, writing the status the evaluator was constructed with.
DumpResultsBeforeStatus(results) ==
    JObj([security |-> DumpSecurity(results.security),
          compliance |-> DumpCompliance(results.compliance),
          quality |-> DumpQuality(results.quality),
          performance |-> DumpPerformance(results.performance),
          overall_status |-> JStr(InitialResults.overall_status),
          timestamp |-> JStr(results.timestamp),
          quality_gates |-> DumpGates(results.quality_gates)])

\* json.dump(results, f, indent=2) of evaluate-gates
DumpResults(results) ==
    JObj([security |-> DumpSecurity(results.security),
          compliance |-> DumpCompliance(results.compliance),
          quality |-> DumpQuality(results.quality),
          performance |-> DumpPerformance(results.performance),
          overall_status |-> JStr(results.overall_status),
          timestamp |-> JStr(results.timestamp),
          quality_gates |-> DumpGates(results.quality_gates)])

\* As EvaluateExitCode, exiting 0 whatever the status.
EvaluateExitCodeZero(results) == 0

\* sys.exit(0 if results['overall_status'] == 'PASSED' else 1)
EvaluateExitCode(results) == IF results.overall_status = "PASSED" THEN 0 ELSE 1

---------------------------------------------------------------------------
(* What the readers of the evaluation file do with a loaded document *)

IsObj(v) == v.t = "object"

\* key in dict
Has(v, key) == key \in DOMAIN v.o

\* dict.get(key, default)
GetOr(v, key, default) == IF Has(v, key) THEN v.o[key] ELSE default

EmptyObj == JObj([k \in {} |-> JNull])

\* f"{x:.1f}" formats a number and raises for anything else
Formats(v) == v.t \in {"number", "bool"}

\* str(x), as print writes it
ToStr(v) ==
    CASE v.t = "string" -> v.s
      [] v.t = "null" -> "None"
      [] v.t = "bool" -> IF v.b THEN "True" ELSE "False"
      [] OTHER -> "<repr>"

Sections ==
    <<[name |-> "security", score |-> "security_score", label |-> "Security"],
      [name |-> "compliance", score |-> "compliance_pass_rate", label |-> "Compliance"],
      [name |-> "quality", score |-> "quality_score", label |-> "Quality"],
      [name |-> "performance", score |-> "performance_score", label |-> "Performance"]>>

---------------------------------------------------------------------------
(* check_qa_gate_status.py *)

\* evaluation_data[name]['passed'] and the :.1f of its score raise nothing
SectionPrints(doc, sec) ==
    \/ ~Has(doc, sec.name)
    \/ /\ IsObj(doc.o[sec.name])
       /\ Has(doc.o[sec.name], "passed")
       /\ Formats(GetOr(doc.o[sec.name], sec.score, JInt(0)))

\* The first section whose line raises, 5 when none does.
FirstRaising(doc) ==
    IF \E i \in DOMAIN Sections : ~SectionPrints(doc, Sections[i])
    THEN CHOOSE i \in DOMAIN Sections :
             /\ ~SectionPrints(doc, Sections[i])
             /\ \A j \in 1..(i - 1) : SectionPrints(doc, Sections[j])
    ELSE Len(Sections) + 1

\* The lines of the sections printed before line i
SectionLines(doc, i) ==
    LET RECURSIVE Upto(_)
        Upto(k) ==
            IF k = 0 THEN <<>>
            ELSE Upto(k - 1) \o
                 (IF k < i /\ Has(doc, Sections[k].name)
                  THEN <<Sections[k].label>> ELSE <<>>)
    IN  Upto(Len(Sections))

\* As check_qa_gate_status, taking a file it cannot read for a passed gate.
check_qa_gate_status_fail_open(file) ==
    IF file.kind = "json" /\ IsObj(file.doc) /\ FirstRaising(file.doc) > Len(Sections)
    THEN [status |-> GetOr(file.doc, "overall_status", JStr("FAILED")),
          lines |-> <<"QA Quality Gate Status Check">>
                    \o SectionLines(file.doc, Len(Sections) + 1)
                    \o <<"Overall Status">>]
    ELSE [status |-> JStr("PASSED"), lines |-> <<"Error reading evaluation file">>]

\* What check_qa_gate_status returns and prints: [status, lines]
check_qa_gate_status(file) ==
    CASE file.kind = "absent" ->
           [status |-> JStr("FAILED"), lines |-> <<"Evaluation file not found">>]
      [] file.kind = "malformed" \/ (file.kind = "json" /\ ~IsObj(file.doc)) ->
           [status |-> JStr("FAILED"), lines |-> <<"Error reading evaluation file">>]
      [] OTHER ->
           LET evaluation_data == file.doc
               overall_status == GetOr(evaluation_data, "overall_status", JStr("FAILED"))
               stop == FirstRaising(evaluation_data)
               head == <<"QA Quality Gate Status Check">>
                       \o SectionLines(evaluation_data, stop)
           IN  IF stop <= Len(Sections)
               THEN [status |-> JStr("FAILED"),
                     lines |-> head \o <<"Error reading evaluation file">>]
               ELSE [status |-> overall_status,
                     lines |-> head \o <<"Overall Status">>]

\* sys.exit(0 if status == "PASSED" else 1)
CheckExitCode(status) == IF status = JStr("PASSED") THEN 0 ELSE 1

---------------------------------------------------------------------------
(* create_qa_promotion_report.py *)

\* qa_evaluation after the try of lines 17-22
LoadOrEmpty(file) == IF file.kind = "json" THEN file.doc ELSE EmptyObj

\* qa_evaluation.get(name, {}).get(...) raises AttributeError unless both are dicts
ReportRaises(file) ==
    LET qa_evaluation == LoadOrEmpty(file)
    IN  \/ ~IsObj(qa_evaluation)
        \/ \E name \in {"security", "compliance", "quality", "performance"} :
              Has(qa_evaluation, name) /\ ~IsObj(qa_evaluation.o[name])

Nested(qa_evaluation, name, key, default) ==
    GetOr(GetOr(qa_evaluation, name, EmptyObj), key, default)

create_qa_promotion_report(file, target_stage, status) ==
    LET qa_evaluation == LoadOrEmpty(file)
    IN  [source_stage |-> "qa",
         target_stage |-> target_stage,
         promotion_status |-> status,
         qa_validation_summary |-> GetOr(qa_evaluation, "overall_status", JStr("UNKNOWN")),
         security_score |-> Nested(qa_evaluation, "security", "security_score", JInt(0)),
         compliance_pass_rate |->
             Nested(qa_evaluation, "compliance", "compliance_pass_rate", JInt(0)),
         quality_score |-> Nested(qa_evaluation, "quality", "quality_score", JInt(0)),
         performance_score |->
             Nested(qa_evaluation, "performance", "performance_score", JInt(0)),
         security_certified |-> Nested(qa_evaluation, "security", "passed", JBool(FALSE)),
         compliance_validated |->
             Nested(qa_evaluation, "compliance", "passed", JBool(FALSE)),
         recommendation |-> IF status = "PASSED" THEN "APPROVED" ELSE "REJECTED",
         action_taken |-> IF status = "PASSED"
                          THEN "Automatic promotion to Testing stage initiated"
                          ELSE "Promotion blocked, manual review required"]

\* main returns 0 after the report is written, whatever the status
ReportExitCode(status) == 0

---------------------------------------------------------------------------
(* promote_to_testing.py *)

\* A path below the source or the target directory: Path.parent, .stem, .suffix
Template(dir, stem) == [dir |-> dir, stem |-> stem, suffix |-> ".md"]

\* The *.md files a source tree may hold, in the order glob yields them
TemplateOrder ==
    <<Template("", "README"), Template("", "promotion_summary"),
      Template("", "guide"), Template("docs", "guide")>>

TemplatePaths == {TemplateOrder[i] : i \in DOMAIN TemplateOrder}

SourceTrees == {tree \in SUBSET TemplatePaths : Cardinality(tree) <= MaxTemplates}

\* list(source_path.glob("**/*.md"))
Discover(tree) == SelectSeq(TemplateOrder, LAMBDA path : path \in tree)

\* Path.with_suffix
with_suffix(path, suffix) == [path EXCEPT !.suffix = suffix]

SummaryPath == [dir |-> "", stem |-> "promotion_summary", suffix |-> ".json"]

ReadmePath == [dir |-> "", stem |-> "README", suffix |-> ".md"]

\* The bytes of the source file at path
SourceBytes(path) == [type |-> "template", of |-> path]

NoFiles == [path \in {} |-> JNull]

\* The target tree: the directories that exist ("" is the target directory
\* itself) and the files in them.
AbsentTarget == [dirs |-> {}, files |-> NoFiles]

EmptyTarget == [dirs |-> {""}, files |-> NoFiles]

\* target_path.parent.mkdir(parents=True, exist_ok=True)
Mkdir(target, dir) == [target EXCEPT !.dirs = @ \cup {"", dir}]

\* Writing a file replaces what the path held.
Put(target, path, content) == [target EXCEPT !.files = (path :> content) @@ @]

\* Building the metadata raises when a section of qa_results is no dict.
MetadataRaises(qa_results) ==
    \E name \in {"security", "compliance", "quality", "performance"} :
        Has(qa_results, name) /\ ~IsObj(qa_results.o[name])

Sidecar(path, qa_results) ==
    [type |-> "sidecar",
     template_name |-> path.stem,
     original_file |-> path,
     promoted_from |-> "qa",
     qa_validation |->
         [security_score |-> Nested(qa_results, "security", "security_score", JInt(0)),
          compliance_pass_rate |->
              Nested(qa_results, "compliance", "compliance_pass_rate", JInt(0)),
          quality_score |-> Nested(qa_results, "quality", "quality_score", JInt(0)),
          performance_score |->
              Nested(qa_results, "performance", "performance_score", JInt(0)),
          overall_status |-> GetOr(qa_results, "overall_status", JStr("UNKNOWN"))]]

\* Where one copy fails: creating the directory, copying the file, writing
\* the sidecar, or nowhere.
Stages == {"mkdir", "copy", "sidecar", "none"}

\* [ok, target]: the return value and the target tree afterwards
copy_template_with_metadata(target, path, qa_results, fail_at) ==
    LET made == Mkdir(target, path.dir)
        copied == Put(made, path, SourceBytes(path))
        stage == IF fail_at = "none" /\ MetadataRaises(qa_results)
                 THEN "sidecar" ELSE fail_at
    IN  CASE stage = "mkdir" -> [ok |-> FALSE, target |-> target]
          [] stage = "copy" -> [ok |-> FALSE, target |-> made]
          [] stage = "sidecar" -> [ok |-> FALSE, target |-> copied]
          [] OTHER ->
               [ok |-> TRUE,
                target |-> Put(copied, with_suffix(path, ".json"),
                               Sidecar(path, qa_results))]

\* mkdir with exist_ok cannot fail on a directory that exists
Feasible(target, path, fail_at) ==
    fail_at = "mkdir" => path.dir \notin target.dirs

\* The loop of lines 94-110 from template i on:
\* [target, promoted_templates, feasible]
RECURSIVE PromoteLoop(_, _, _, _, _)
PromoteLoop(acc, template_files, i, qa_results, plan) ==
    IF i > Len(template_files) THEN acc
    ELSE LET template_file == template_files[i]
             copy == copy_template_with_metadata(acc.target, template_file,
                                                 qa_results, plan[template_file])
             next == [target |-> copy.target,
                      promoted_templates |->
                          IF copy.ok
                          THEN Append(acc.promoted_templates,
                                      [name |-> template_file.stem,
                                       source_path |-> template_file,
                                       target_path |-> template_file])
                          ELSE acc.promoted_templates,
                      feasible |-> acc.feasible
                                   /\ Feasible(acc.target, template_file,
                                               plan[template_file])]
         IN  PromoteLoop(next, template_files, i + 1, qa_results, plan)

PromotionSummary(promoted_templates, qa_results, total) ==
    [type |-> "summary",
     source_stage |-> "qa",
     target_stage |-> "testing",
     promoted_templates |-> promoted_templates,
     qa_validation_summary |-> qa_results,
     total_templates |-> total,
     successfully_promoted |-> Len(promoted_templates)]

\* As GateBlocks, stopping only at a FAILED status.
GateBlocksOnlyFailed(qa_results) ==
    GetOr(qa_results, "overall_status", JNull) = JStr("FAILED")

\* if qa_results.get('overall_status') != 'PASSED'
GateBlocks(qa_results) ==
    GetOr(qa_results, "overall_status", JNull) # JStr("PASSED")

\* As NothingToPromote, with the check dropped.
NothingToPromoteIgnored(template_files) == FALSE

\* if not template_files
NothingToPromote(template_files) == template_files = <<>>

Outcome(result, target, feasible) ==
    [result |-> result, target |-> target, feasible |-> feasible]

\* promote_templates: result is "True", "False" or "raised"
promote_templates(file, tree, target, plan) ==
    IF file.kind # "json" THEN Outcome("False", target, TRUE)
    ELSE IF ~IsObj(file.doc) THEN Outcome("raised", target, TRUE)
    ELSE IF GateBlocks(file.doc) THEN Outcome("False", target, TRUE)
    ELSE LET qa_results == file.doc
             template_files == Discover(tree)
             done == PromoteLoop([target |-> target, promoted_templates |-> <<>>,
                                  feasible |-> TRUE],
                                 template_files, 1, qa_results, plan)
             promoted_count == Len(done.promoted_templates)
         IN  IF NothingToPromote(template_files) THEN Outcome("False", target, TRUE)
             ELSE IF "" \notin done.target.dirs
                  THEN Outcome("raised", done.target, done.feasible)
             ELSE Outcome(IF promoted_count = Len(template_files)
                          THEN "True" ELSE "False",
                          Put(done.target, SummaryPath,
                              PromotionSummary(done.promoted_templates, qa_results,
                                               Len(template_files))),
                          done.feasible)

\* create_testing_readme
Readme(summary) ==
    [type |-> "readme", templates_promoted |-> summary.successfully_promoted]

\* main of promote-templates after promote_templates: [target, exit_code]
PromoteMainAfter(outcome) ==
    IF outcome.result = "True"
    THEN [target |-> Put(outcome.target, ReadmePath,
                         Readme(outcome.target.files[SummaryPath])),
          exit_code |-> 0]
    ELSE [target |-> outcome.target, exit_code |-> 1]

---------------------------------------------------------------------------
(* The reports one pipeline run may find *)

PipelineSecurityDirs == SecurityDirs(MaxFindings)

PipelineComplianceDirs ==
    ComplianceDirs({Absent,
                    [kind |-> "object", status |-> "PASSED", compliant |-> "false"],
                    [kind |-> "object", status |-> "FAILED", compliant |-> "false"]})

PipelineQualityDirs ==
    QualityDirs({Absent, Malformed, [kind |-> "object", averageComplexity |-> Num(0)]},
                {Absent, [kind |-> "object", debt_score |-> Num(100)]},
                {Absent, [kind |-> "object", pct |-> NotANumber],
                 [kind |-> "object", pct |-> Num(79)]})

PipelinePerformanceDirs ==
    PerformanceDirs({Absent,
                     [kind |-> "object", avg_response_time |-> Num(100),
                      peak_memory_mb |-> Num(100), lighthouse_performance |-> Num(90)],
                     [kind |-> "object", avg_response_time |-> Num(900),
                      peak_memory_mb |-> Num(100), lighthouse_performance |-> Num(90)]})

---------------------------------------------------------------------------
(* The evaluation files a reader may be pointed at *)

CleanSecurityDir ==
    [bandit |-> [kind |-> "object", results |-> <<>>],
     safety |-> [kind |-> "array", items |-> <<>>],
     semgrep |-> [kind |-> "object", results |-> <<>>]]

\* What evaluate-gates holds after reports without a finding, with
\* allPass compliance files passing (or none of them present).
ResultsOf(allPass) ==
    WithOverallStatus(
        [security |-> evaluate_security_results(CleanSecurityDir),
         compliance |->
             evaluate_compliance_results(
                 [name \in {compliance_checks[i] : i \in DOMAIN compliance_checks} |->
                     IF allPass
                     THEN [kind |-> "object", status |-> "PASSED", compliant |-> "false"]
                     ELSE Absent]),
         quality |->
             evaluate_quality_results(
                 [complexity |-> Absent, debt |-> Absent, coverage |-> Absent]),
         performance |-> evaluate_performance_results([baseline |-> Absent]),
         overall_status |-> "PENDING"])

StatusOnly(status) == JsonFile(JObj([overall_status |-> status]))

WithSecurity(section) ==
    JsonFile(JObj([overall_status |-> JStr("PASSED"), security |-> section]))

EvaluationFiles ==
    {Absent, Malformed, JsonFile(JArr), JsonFile(EmptyObj),
     StatusOnly(JStr("PASSED")), StatusOnly(JStr("FAILED")),
     StatusOnly(JStr("PENDING")), StatusOnly(JNull),
     WithSecurity(JArr),
     WithSecurity(JObj([security_score |-> JInt(100)])),
     WithSecurity(JObj([security_score |-> JStr("high"), passed |-> JBool(TRUE)])),
     JsonFile(DumpResults(ResultsOf(TRUE))),
     JsonFile(DumpResults(ResultsOf(FALSE)))}

---------------------------------------------------------------------------
VARIABLES
    security_dir,        \* the security results directory handed to the evaluator
    security_record,     \* what evaluate_security_results returned for it
    call,                \* "pending" before that call, "returned" after
    pc,                  \* where the pipeline run stands
    evaluation_results,  \* QAQualityGateEvaluator.evaluation_results
    evaluate_outcome,    \* evaluate_all_gates: "none", "returned" or "raised"
    evaluation_file,     \* the file evaluate-gates writes and the others read
    exit_code,           \* the exit code of each entry point that has exited
    gate_status,         \* what check_qa_gate_status returned
    stdout,              \* the lines check-gate-status printed
    report_file,         \* reports/qa-promotion-report.json
    source_tree,         \* the templates under --source-dir
    target_before,       \* the tree under --target-dir when promote-templates starts
    target,              \* the tree under --target-dir
    promote_result,      \* promote_templates: "none", "True", "False" or "raised"
    results_dir,         \* the results directory handed to one category evaluator
    category_record      \* what that evaluator returned for it

vars == <<security_dir, security_record, call, pc, evaluation_results,
          evaluate_outcome, evaluation_file, exit_code, gate_status, stdout,
          report_file, source_tree, target_before, target, promote_result,
          results_dir, category_record>>

categoryVars == <<results_dir, category_record>>

securityVars == <<security_dir, security_record, call>>

evaluatorVars == <<evaluation_results, evaluate_outcome>>

checkerVars == <<gate_status, stdout>>

promoterVars == <<source_tree, target_before, target, promote_result>>

NoRecord == [returned |-> FALSE]

NoDir == [given |-> FALSE]

InitCategoryVars ==
    /\ results_dir = NoDir
    /\ category_record = NoRecord

\* The entry points that have exited, and the exit of one more of them.
Exited(entry) == entry \in DOMAIN exit_code

Exit(entry, code) == (entry :> code) @@ exit_code

InitPipelineVars ==
    /\ pc = "idle"
    /\ evaluation_results = InitialResults
    /\ evaluate_outcome = "none"
    /\ exit_code = << >>
    /\ gate_status = JNull
    /\ stdout = <<>>
    /\ report_file = Absent
    /\ source_tree = {}
    /\ target_before = AbsentTarget
    /\ target = AbsentTarget
    /\ promote_result = "none"

pipelineVars == <<pc, evaluation_results, evaluate_outcome, evaluation_file, exit_code,
                  gate_status, stdout, report_file, source_tree, target_before,
                  target, promote_result>>

---------------------------------------------------------------------------
(* evaluate_security_results applied to every security results directory *)

InitSecurity ==
    /\ security_dir \in SecurityDirs(MaxFindings)
    /\ security_record = NoRecord
    /\ call = "pending"
    /\ evaluation_file = Absent
    /\ InitCategoryVars
    /\ InitPipelineVars

CallSecurity ==
    /\ call = "pending"
    /\ security_record' = evaluate_security_results(security_dir)
    /\ call' = "returned"
    /\ UNCHANGED <<security_dir, categoryVars, pipelineVars>>

NextSecurity == CallSecurity

SpecSecurity == InitSecurity /\ [][NextSecurity]_vars

---------------------------------------------------------------------------
(* The other three category evaluators applied to their results directories *)

InitCategory(dirs) ==
    /\ results_dir \in dirs
    /\ category_record = NoRecord
    /\ call = "pending"
    /\ security_dir = EmptySecurityDir
    /\ security_record = NoRecord
    /\ evaluation_file = Absent
    /\ InitPipelineVars

ComplianceInputDirs == ComplianceDirs(ComplianceReports)

InitCompliance == InitCategory(ComplianceInputDirs)

CallCompliance ==
    /\ call = "pending"
    /\ category_record' = evaluate_compliance_results(results_dir)
    /\ call' = "returned"
    /\ UNCHANGED <<security_dir, security_record, results_dir, pipelineVars>>

NextCompliance == CallCompliance

SpecCompliance == InitCompliance /\ [][NextCompliance]_vars

QualityInputDirs ==
    QualityDirs(ComplexityReports({0, 3, 20}), DebtReports({0, 70, 100}),
                CoverageReports({79, 80}))

InitQuality == InitCategory(QualityInputDirs)

\* evaluate_quality_results returns its record, or raises at line 168.
CallQuality ==
    /\ call = "pending"
    /\ IF QualityRaises(results_dir)
       THEN /\ call' = "raised"
            /\ UNCHANGED category_record
       ELSE /\ call' = "returned"
            /\ category_record' = evaluate_quality_results(results_dir)
    /\ UNCHANGED <<security_dir, security_record, results_dir, pipelineVars>>

NextQuality == CallQuality

SpecQuality == InitQuality /\ [][NextQuality]_vars

PerformanceInputDirs ==
    PerformanceDirs(BaselineReports({100, 250, 1100}, {100, 150}, {45, 55, 90}))

InitPerformance == InitCategory(PerformanceInputDirs)

CallPerformance ==
    /\ call = "pending"
    /\ category_record' = evaluate_performance_results(results_dir)
    /\ call' = "returned"
    /\ UNCHANGED <<security_dir, security_record, results_dir, pipelineVars>>

NextPerformance == CallPerformance

SpecPerformance == InitPerformance /\ [][NextPerformance]_vars

---------------------------------------------------------------------------
(* The evaluate-gates entry point, one reader at a time *)

\* main up to the call of evaluate_all_gates: os.makedirs of the output's
\* directory raises when the output path names no directory.
EvaluateStart ==
    /\ pc = "idle"
    /\ \E output_dirname \in {"", "qa-results"} :
         IF output_dirname = ""
         THEN /\ pc' = "evaluated"
              /\ exit_code' = Exit("evaluate", 1)
              /\ UNCHANGED evaluation_results
         ELSE /\ pc' = "security"
              /\ evaluation_results' = InitialResults
              /\ UNCHANGED exit_code
    /\ UNCHANGED <<securityVars, categoryVars, evaluate_outcome, evaluation_file, checkerVars,
                   report_file, promoterVars>>

EvaluateSecurity ==
    /\ pc = "security"
    /\ \E dir \in PipelineSecurityDirs :
         evaluation_results' =
             [evaluation_results EXCEPT !.security = evaluate_security_results(dir)]
    /\ pc' = "compliance"
    /\ UNCHANGED <<securityVars, categoryVars, evaluate_outcome, evaluation_file, exit_code,
                   checkerVars, report_file, promoterVars>>

EvaluateCompliance ==
    /\ pc = "compliance"
    /\ \E dir \in PipelineComplianceDirs :
         evaluation_results' =
             [evaluation_results EXCEPT !.compliance = evaluate_compliance_results(dir)]
    /\ pc' = "quality"
    /\ UNCHANGED <<securityVars, categoryVars, evaluate_outcome, evaluation_file, exit_code,
                   checkerVars, report_file, promoterVars>>

EvaluateQuality ==
    /\ pc = "quality"
    /\ \E dir \in PipelineQualityDirs :
         IF QualityRaises(dir)
         THEN /\ pc' = "evaluated"
              /\ evaluate_outcome' = "raised"
              /\ exit_code' = Exit("evaluate", 1)
              /\ UNCHANGED evaluation_results
         ELSE /\ pc' = "performance"
              /\ evaluation_results' =
                     [evaluation_results EXCEPT !.quality = evaluate_quality_results(dir)]
              /\ UNCHANGED <<evaluate_outcome, exit_code>>
    /\ UNCHANGED <<securityVars, categoryVars, evaluation_file, checkerVars, report_file,
                   promoterVars>>

EvaluatePerformance ==
    /\ pc = "performance"
    /\ \E dir \in PipelinePerformanceDirs :
         evaluation_results' =
             [evaluation_results EXCEPT !.performance = evaluate_performance_results(dir)]
    /\ pc' = "summary"
    /\ UNCHANGED <<securityVars, categoryVars, evaluate_outcome, evaluation_file, exit_code,
                   checkerVars, report_file, promoterVars>>

\* The rest of evaluate_all_gates (status, summary, return) and of main
\* (json.dump, sys.exit).
EvaluateFinish ==
    /\ pc = "summary"
    /\ evaluation_results' = WithOverallStatus(evaluation_results)
    /\ IF SummaryRaises(evaluation_results)
       THEN /\ evaluate_outcome' = "raised"
            /\ exit_code' = Exit("evaluate", 1)
            /\ UNCHANGED evaluation_file
       ELSE /\ evaluate_outcome' = "returned"
            /\ evaluation_file' = JsonFile(DumpResults(evaluation_results'))
            /\ exit_code' = Exit("evaluate", EvaluateExitCode(evaluation_results'))
    /\ pc' = "evaluated"
    /\ UNCHANGED <<securityVars, categoryVars, checkerVars, report_file, promoterVars>>

---------------------------------------------------------------------------
(* The three entry points that read the evaluation file; a run ends with
   one of them *)

Consuming == pc \in {"idle", "evaluated"}

\* main of check-gate-status
CheckMain ==
    /\ Consuming
    /\ LET checked == check_qa_gate_status(evaluation_file)
       IN  /\ gate_status' = checked.status
           /\ stdout' = checked.lines \o <<ToStr(checked.status)>>
           /\ exit_code' = Exit("check", CheckExitCode(checked.status))
    /\ pc' = "done"
    /\ UNCHANGED <<securityVars, categoryVars, evaluatorVars, evaluation_file, report_file,
                   promoterVars>>

\* main of create-promotion-report
ReportMain ==
    /\ Consuming
    /\ \E status \in {"PASSED", "FAILED"} :
         IF ReportRaises(evaluation_file)
         THEN /\ exit_code' = Exit("report", 1)
              /\ UNCHANGED report_file
         ELSE /\ report_file' =
                     [kind |-> "json",
                      report |-> create_qa_promotion_report(evaluation_file,
                                                            "testing", status)]
              /\ exit_code' = Exit("report", ReportExitCode(status))
    /\ pc' = "done"
    /\ UNCHANGED <<securityVars, categoryVars, evaluatorVars, evaluation_file, checkerVars,
                   promoterVars>>

NoFailures(tree) == [path \in tree |-> "none"]

\* The evaluation file loads and says PASSED: the copy loop is reached.
LoadGatePasses(file) ==
    /\ file.kind = "json"
    /\ IsObj(file.doc)
    /\ GetOr(file.doc, "overall_status", JNull) = JStr("PASSED")

\* main of promote-templates
PromoteMain ==
    /\ Consuming
    /\ \E tree \in SourceTrees, before \in {AbsentTarget, EmptyTarget} :
         \E plan \in [tree -> Stages] :
            LET outcome == promote_templates(evaluation_file, tree, before, plan)
                after == PromoteMainAfter(outcome)
            IN  /\ outcome.feasible
                /\ (~LoadGatePasses(evaluation_file) => plan = NoFailures(tree))
                /\ source_tree' = tree
                /\ target_before' = before
                /\ target' = after.target
                /\ promote_result' = outcome.result
                /\ exit_code' = Exit("promote", after.exit_code)
    /\ pc' = "done"
    /\ UNCHANGED <<securityVars, categoryVars, evaluatorVars, evaluation_file, checkerVars,
                   report_file>>

Init ==
    /\ security_dir = EmptySecurityDir
    /\ security_record = NoRecord
    /\ call = "unused"
    /\ evaluation_file = Absent
    /\ InitCategoryVars
    /\ InitPipelineVars

Next ==
    \/ EvaluateStart
    \/ EvaluateSecurity
    \/ EvaluateCompliance
    \/ EvaluateQuality
    \/ EvaluatePerformance
    \/ EvaluateFinish
    \/ CheckMain
    \/ ReportMain
    \/ PromoteMain

Spec == Init /\ [][Next]_vars

---------------------------------------------------------------------------
(* The readers pointed at any evaluation file *)

InitReaders ==
    /\ security_dir = EmptySecurityDir
    /\ security_record = NoRecord
    /\ call = "unused"
    /\ evaluation_file \in EvaluationFiles
    /\ InitCategoryVars
    /\ InitPipelineVars

NextReaders ==
    \/ CheckMain
    \/ ReportMain
    \/ PromoteMain

SpecReaders == InitReaders /\ [][NextReaders]_vars

---------------------------------------------------------------------------
(* Properties *)

EvaluateReturned == evaluate_outcome = "returned"

CheckRan == Exited("check")

ReportRan == Exited("report")

PromoteRan == Exited("promote")

\* The evaluation file cannot be loaded: open or json.load raises.
Unloadable(file) == file.kind \in {"absent", "malformed"}

\* The evaluation file holds an object whose overall_status is status.
StatusIs(file, status) ==
    /\ file.kind = "json"
    /\ file.doc.t = "object"
    /\ "overall_status" \in DOMAIN file.doc.o
    /\ file.doc.o.overall_status = JStr(status)

\* The evaluation file holds an object that does not say PASSED.
StatusNotPassed(file) ==
    /\ file.kind = "json"
    /\ file.doc.t = "object"
    /\ ~StatusIs(file, "PASSED")

\* C1: once evaluate_all_gates has returned, overall_status is PASSED exactly
\* when the passed flags of the four category records are all true, and is
\* FAILED otherwise; it is never left at PENDING.
C1_OverallStatusIffAllPassed ==
    EvaluateReturned =>
        /\ evaluation_results.overall_status \in {"PASSED", "FAILED"}
        /\ evaluation_results.overall_status = "PASSED"
           <=> /\ evaluation_results.security.passed = TRUE
               /\ evaluation_results.compliance.passed = TRUE
               /\ evaluation_results.quality.passed = TRUE
               /\ evaluation_results.performance.passed = TRUE

\* evaluate_all_gates returned FAILED with the performance flag the only
\* false one.
C1_Witness ==
    /\ EvaluateReturned
    /\ evaluation_results.security.passed
    /\ evaluation_results.compliance.passed
    /\ evaluation_results.quality.passed
    /\ ~evaluation_results.performance.passed
    /\ evaluation_results.overall_status = "FAILED"

\* C2: when the evaluation file cannot be loaded, or holds an object whose
\* overall_status is not PASSED, promote_templates returns failure and the
\* target tree is as it was: nothing copied, no sidecar, no directory, no
\* summary.  A document that is no object never leads to success or to a
\* write either.
C2_LoadGate ==
    PromoteRan =>
        /\ (Unloadable(evaluation_file) \/ StatusNotPassed(evaluation_file))
           => /\ promote_result = "False"
              /\ exit_code.promote = 1
              /\ target = target_before
        /\ (evaluation_file.kind = "json" /\ evaluation_file.doc.t # "object")
           => /\ promote_result # "True"
              /\ exit_code.promote = 1
              /\ target = target_before

\* promote-templates ran on a FAILED evaluation with templates to promote
\* and left an absent target directory absent.
C2_Witness ==
    /\ PromoteRan
    /\ StatusIs(evaluation_file, "FAILED")
    /\ source_tree # {}
    /\ promote_result = "False"
    /\ target_before = AbsentTarget
    /\ target = AbsentTarget

\* C3: with a PASSED evaluation and at least one discovered template, a
\* copy failure does not stop the run: promote_templates returns, the
\* summary is written with the number of templates discovered, and the
\* return value is success exactly when every template was promoted.
C3_PartialFailureTolerance ==
    (PromoteRan /\ StatusIs(evaluation_file, "PASSED") /\ source_tree # {}) =>
        /\ promote_result \in {"True", "False"}
        /\ SummaryPath \in DOMAIN target.files
        /\ target.files[SummaryPath].type = "summary"
        /\ target.files[SummaryPath].total_templates = Cardinality(source_tree)
        /\ promote_result = "True"
           <=> target.files[SummaryPath].successfully_promoted = Cardinality(source_tree)

\* C4: with a PASSED evaluation and no template in the source tree,
\* promote_templates returns failure, and the entry point exits 1 without
\* the status document and without any other write.
C4_NoTemplatesIsFailure ==
    (PromoteRan /\ StatusIs(evaluation_file, "PASSED") /\ source_tree = {}) =>
        /\ promote_result = "False"
        /\ exit_code.promote = 1
        /\ ReadmePath \notin DOMAIN target.files
        /\ target = target_before

\* promote-templates ran on a PASSED evaluation and an empty source tree,
\* with the target directory there.
C4_Witness ==
    /\ PromoteRan
    /\ StatusIs(evaluation_file, "PASSED")
    /\ source_tree = {}
    /\ target_before = EmptyTarget
    /\ exit_code.promote = 1

SidecarPaths == {path \in DOMAIN target.files : target.files[path].type = "sidecar"}

\* C5: after a promote-templates run that succeeded on n >= 1 templates,
\* the target tree holds every template at its relative path with the bytes
\* of its source, exactly n sidecars, one per template, and a summary that
\* records n promoted of n.
C5_PromotedTree ==
    (PromoteRan /\ exit_code.promote = 0 /\ source_tree # {}) =>
        /\ \A path \in source_tree :
              /\ path \in DOMAIN target.files
              /\ target.files[path] = SourceBytes(path)
              /\ with_suffix(path, ".json") \in SidecarPaths
              /\ target.files[with_suffix(path, ".json")].original_file = path
        /\ Cardinality(SidecarPaths) = Cardinality(source_tree)
        /\ SummaryPath \in DOMAIN target.files
        /\ target.files[SummaryPath].type = "summary"
        /\ target.files[SummaryPath].successfully_promoted = Cardinality(source_tree)
        /\ target.files[SummaryPath].total_templates = Cardinality(source_tree)

\* C6: check_qa_gate_status answers FAILED for a file that is missing or
\* does not parse to an object; check-gate-status prints the status as its
\* last line and exits 0 exactly when the status is PASSED, 1 otherwise.
C6_CheckerFailsClosed ==
    CheckRan =>
        /\ (Unloadable(evaluation_file)
            \/ (evaluation_file.kind = "json" /\ evaluation_file.doc.t # "object"))
           => gate_status = JStr("FAILED")
        /\ Len(stdout) >= 1
        /\ stdout[Len(stdout)] = ToStr(gate_status)
        /\ exit_code.check = 0 <=> gate_status = JStr("PASSED")
        /\ exit_code.check = 1 <=> gate_status # JStr("PASSED")

\* check-gate-status ran on a file that does not parse, printed FAILED last
\* and exited 1.
C6_Witness ==
    /\ CheckRan
    /\ evaluation_file = Malformed
    /\ gate_status = JStr("FAILED")
    /\ stdout[Len(stdout)] = "FAILED"
    /\ exit_code.check = 1

\* check-gate-status ran on a file whose status is PENDING and exited 1.
C6_WitnessPending ==
    /\ CheckRan
    /\ StatusIs(evaluation_file, "PENDING")
    /\ gate_status = JStr("PENDING")
    /\ exit_code.check = 1

\* C7: when check-gate-status reads the file evaluate-gates has just
\* written, it returns the overall_status the evaluator computed, and the
\* two entry points exit with the same code.
C7_RoundTrip ==
    (EvaluateReturned /\ CheckRan) =>
        /\ gate_status = JStr(evaluation_results.overall_status)
        /\ exit_code.check = exit_code.evaluate

\* evaluate-gates wrote a PASSED result, check-gate-status read it back, and
\* both exited 0.
C7_Witness ==
    /\ EvaluateReturned
    /\ CheckRan
    /\ evaluation_results.overall_status = "PASSED"
    /\ gate_status = JStr("PASSED")
    /\ exit_code.check = 0
    /\ exit_code.evaluate = 0

\* The exit codes of evaluate-gates, check-gate-status and promote-templates
\* follow their outcome.
ExitFollowsOutcome ==
    /\ (EvaluateReturned \/ evaluate_outcome = "raised") => Exited("evaluate")
    /\ Exited("evaluate") =>
          /\ exit_code.evaluate \in {0, 1}
          /\ exit_code.evaluate = 0
             <=> (EvaluateReturned /\ evaluation_results.overall_status = "PASSED")
    /\ CheckRan =>
          /\ exit_code.check \in {0, 1}
          /\ exit_code.check = 0 <=> gate_status = JStr("PASSED")
    /\ PromoteRan =>
          /\ exit_code.promote \in {0, 1}
          /\ exit_code.promote = 0 <=> promote_result = "True"

\* C8 as stated: every entry point exits 0 on success/PASSED and 1 on
\* failure/FAILED, create-promotion-report by the status it reports.
C8_ExitCodeSignalsOutcome ==
    /\ ExitFollowsOutcome
    /\ (ReportRan /\ report_file.kind = "json") =>
          /\ report_file.report.promotion_status = "PASSED" => exit_code.report = 0
          /\ report_file.report.promotion_status # "PASSED" => exit_code.report = 1

\* C8 as amended: evaluate-gates, check-gate-status and promote-templates
\* exit 0 on success/PASSED and 1 otherwise; create-promotion-report exits 0
\* whenever it has written its report, whatever status the report carries,
\* and 1 only when it wrote none.
C8_ExitCodeAmended ==
    /\ ExitFollowsOutcome
    /\ ReportRan =>
          /\ report_file.kind = "json" <=> exit_code.report = 0
          /\ report_file.kind # "json" <=> exit_code.report = 1

\* create-promotion-report wrote a report of status FAILED after
\* evaluate-gates exited 1, and exited 0.
C8_Witness ==
    /\ EvaluateReturned
    /\ ReportRan
    /\ exit_code.evaluate = 1
    /\ report_file.kind = "json"
    /\ report_file.report.promotion_status = "FAILED"
    /\ report_file.report.recommendation = "REJECTED"
    /\ exit_code.report = 0

\* C9: evaluate_all_gates raises for no combination of report files, and
\* what it returns has an overall_status of PASSED or FAILED.
C9_ReadersNeverRaise ==
    /\ evaluate_outcome # "raised"
    /\ EvaluateReturned => evaluation_results.overall_status \in {"PASSED", "FAILED"}

\* The sum of the three scanners' scores for the directory, the number of
\* reports present in it, and the scores of those present.
ToolScores(dir) ==
    [bandit |-> BanditTerm(dir.bandit).score,
     safety |-> SafetyTerm(dir.safety).score,
     semgrep |-> SemgrepTerm(dir.semgrep).score]

Present(dir) == {tool \in {"bandit", "safety", "semgrep"} : dir[tool].kind # "absent"}

ScoreSum(dir) ==
    ToolScores(dir).bandit + ToolScores(dir).safety + ToolScores(dir).semgrep

\* C10 as stated: the security score is the sum of the scores of the reports
\* present divided by their number, so it is within [0,100] and is the
\* tool's own score when one report is present.
C10_AverageOverContributors ==
    (call = "returned" /\ Present(security_dir) # {}) =>
        /\ security_record.security_score.num * Cardinality(Present(security_dir))
           = ScoreSum(security_dir) * security_record.security_score.den
        /\ \A tool \in Present(security_dir) :
              Present(security_dir) = {tool}
              => security_record.security_score.num
                 = ToolScores(security_dir)[tool] * security_record.security_score.den

\* C10 as amended: the security score is the sum of the scores of the
\* reports present (each max(0, 100 - deductions), or 50 when malformed)
\* divided by 3 however many are present, so it is within [0,100] and is a
\* third of the tool's own score when one report is present.
C10_AverageOverThree ==
    call = "returned" =>
        /\ security_record.security_score.num * 3
           = ScoreSum(security_dir) * security_record.security_score.den
        /\ security_record.security_score.num >= 0
        /\ security_record.security_score.num <= 100 * security_record.security_score.den
        /\ \A tool \in Present(security_dir) :
              Present(security_dir) = {tool}
              => security_record.security_score.num * 3
                 = ToolScores(security_dir)[tool] * security_record.security_score.den

\* Only the bandit report is present, without a finding: its score is 100
\* and the security score is 100/3.
C10_Witness ==
    /\ call = "returned"
    /\ Present(security_dir) = {"bandit"}
    /\ ToolScores(security_dir).bandit = 100
    /\ security_record.security_score = Frac(100, 3)
    /\ ~security_record.passed

\* The findings the three scanners count for the directory.
VulnSum(dir) ==
    BanditTerm(dir.bandit).vulns + SafetyTerm(dir.safety).vulns
    + SemgrepTerm(dir.semgrep).vulns

\* C11: evaluate_security_results sets passed exactly when the average
\* security score is at least 90 and the findings counted over the three
\* tools are at most 0; three reports without a finding give a score of
\* 100, a count of 0 and passed.
C11_SecurityGate ==
    call = "returned" =>
        /\ security_record.vulnerability_count = VulnSum(security_dir)
        /\ security_record.passed
           <=> /\ security_record.security_score.num
                  >= 90 * security_record.security_score.den
               /\ security_record.vulnerability_count <= 0
        /\ security_dir = CleanSecurityDir
           => /\ security_record.security_score.num
                 = 100 * security_record.security_score.den
              /\ security_record.vulnerability_count = 0
              /\ security_record.passed

\* The three reports are there without a finding: score 100 and passed.
C11_Witness ==
    /\ call = "returned"
    /\ security_dir = CleanSecurityDir
    /\ security_record.security_score = Frac(300, 3)
    /\ security_record.passed

\* One MEDIUM bandit finding: the score is 290/3, above the threshold, and
\* the gate fails on the count.
C11_WitnessCount ==
    /\ call = "returned"
    /\ security_record.security_score = Frac(290, 3)
    /\ security_record.vulnerability_count = 1
    /\ ~security_record.passed

\* The report is a JSON object that carries the member as a number.
HasNumber(f, member) == f.kind = "object" /\ f[member].t = "number"

\* C12: for complexity and technical-debt reports that are there,
\* quality_score is the average of max(0, 100 - 5 * averageComplexity) and
\* the debt score of the report (70 when it is unreadable), coverage_score
\* is the figure of the coverage summary (85 without one), and passed holds
\* exactly when the average is at least 85 and the coverage at least 80.
C12_QualityGate ==
    LET complexity == results_dir.complexity
        debt == results_dir.debt
        coverage == results_dir.coverage
        complexity_score == Max(0, 100 - (5 * complexity.averageComplexity.v))
        debt_score == IF debt.kind = "object" THEN debt.debt_score.v ELSE 70
    IN  (/\ call = "returned"
         /\ HasNumber(complexity, "averageComplexity")
         /\ (HasNumber(debt, "debt_score") \/ debt.kind \in {"malformed", "array"})
         /\ (HasNumber(coverage, "pct") \/ coverage.kind = "absent"))
        => /\ category_record.quality_score.num * 2
              = (complexity_score + debt_score) * category_record.quality_score.den
           /\ category_record.coverage_score
              = IF coverage.kind = "absent" THEN Num(85) ELSE coverage.pct
           /\ category_record.passed
              <=> /\ category_record.quality_score.num
                     >= 85 * category_record.quality_score.den
                  /\ category_record.coverage_score.v >= 80

\* C13: with a baseline that carries the three figures, performance_score
\* is the average of max(0, 100 - response_time/10),
\* max(0, 100 - memory_usage/10) and the lighthouse figure, and passed
\* holds exactly when it is at least 75; without a baseline file the score
\* is 80 and passed holds.
C13_PerformanceGate ==
    LET f == results_dir.baseline
    IN  call = "returned" =>
          /\ (/\ HasNumber(f, "avg_response_time")
              /\ HasNumber(f, "peak_memory_mb")
              /\ HasNumber(f, "lighthouse_performance"))
             => /\ category_record.performance_score.num * 30
                   = (Max(0, 1000 - f.avg_response_time.v)
                      + Max(0, 1000 - f.peak_memory_mb.v)
                      + 10 * f.lighthouse_performance.v)
                     * category_record.performance_score.den
                /\ category_record.passed
                   <=> category_record.performance_score.num
                       >= 75 * category_record.performance_score.den
          /\ f.kind = "absent"
             => /\ category_record.performance_score = Frac(80, 1)
                /\ category_record.passed = TRUE

\* Response 100 ms, memory 100 MB and lighthouse 45 average to exactly 75
\* and pass.
C13_Witness ==
    /\ call = "returned"
    /\ HasNumber(results_dir.baseline, "avg_response_time")
    /\ results_dir.baseline.avg_response_time = Num(100)
    /\ results_dir.baseline.peak_memory_mb = Num(100)
    /\ results_dir.baseline.lighthouse_performance = Num(45)
    /\ category_record.performance_score = Frac(2250, 30)
    /\ category_record.passed

\* A response time of 1100 ms scores 0, not -10, and the gate fails.
C13_WitnessFloor ==
    /\ call = "returned"
    /\ HasNumber(results_dir.baseline, "avg_response_time")
    /\ results_dir.baseline.avg_response_time = Num(1100)
    /\ results_dir.baseline.peak_memory_mb = Num(100)
    /\ results_dir.baseline.lighthouse_performance = Num(90)
    /\ category_record.performance_score = Frac(1800, 30)
    /\ ~category_record.passed

\* No baseline file: score 80 and passed.
C13_WitnessAbsent ==
    /\ call = "returned"
    /\ results_dir.baseline = Absent
    /\ category_record.performance_score = Frac(80, 1)
    /\ category_record.passed

\* The file is there, parses, and says status PASSED or compliant true.
PresentAndPassing(f) ==
    /\ f.kind = "object"
    /\ (f.status = "PASSED" \/ f.compliant = "true")

\* C14: a compliance check counts only when its file exists, parses and
\* says status PASSED or compliant true; compliance_pass_rate is
\* passed_checks / 4 * 100 with total_checks 4; passed holds exactly when
\* the four files are present and passing.
C14_ComplianceGate ==
    call = "returned" =>
        /\ category_record.passed_checks
           = Cardinality({name \in DOMAIN results_dir : PresentAndPassing(results_dir[name])})
        /\ category_record.total_checks = 4
        /\ category_record.compliance_pass_rate.num * 4
           = category_record.passed_checks * 100 * category_record.compliance_pass_rate.den
        /\ category_record.passed
           <=> \A name \in DOMAIN results_dir : PresentAndPassing(results_dir[name])

\* The passed flag of a category in the evaluation file evaluate-gates wrote.
PersistedPassed(category) ==
    evaluation_file.doc.o[category].o.passed = JBool(TRUE)

AllPersistedPassed ==
    \A category \in {"security", "compliance", "quality", "performance"} :
        PersistedPassed(category)

\* promote_templates got past its load gate to the copy loop: it left
\* something under the target or raised at the summary write.
CopyAttempted == promote_result = "raised" \/ target # target_before

\* C15: when promote-templates reads the file evaluate-gates has written
\* and there are templates to promote, it gets past its load gate and
\* attempts the copies exactly when the four gates passed in that
\* evaluation; in no run is a file under the target tree while evaluate-gates
\* wrote no evaluation or a passed flag in the one it wrote is false.
C15_EndToEnd ==
    /\ (EvaluateReturned /\ PromoteRan /\ source_tree # {})
       => (CopyAttempted <=> AllPersistedPassed)
    /\ (PromoteRan /\ DOMAIN target.files # {})
       => (EvaluateReturned /\ AllPersistedPassed)

\* The four gates passed, evaluate-gates wrote PASSED, and promote-templates
\* copied a template under the target.
C15_Witness ==
    /\ EvaluateReturned
    /\ PromoteRan
    /\ AllPersistedPassed
    /\ source_tree # {}
    /\ promote_result = "True"
    /\ \E path \in source_tree : path \in DOMAIN target.files

\* Only the quality gate failed, and promote-templates left the target as
\* it was although there were templates.
C15_WitnessBlocked ==
    /\ EvaluateReturned
    /\ PromoteRan
    /\ PersistedPassed("security")
    /\ PersistedPassed("compliance")
    /\ PersistedPassed("performance")
    /\ ~PersistedPassed("quality")
    /\ source_tree # {}
    /\ promote_result = "False"
    /\ target = target_before

====
